---- MODULE Spec2Model ----
(***************************************************************************)
(* Model of the renderer-side IPC endpoint                                 *)
(* shell/renderer/api/electron_api_renderer_ipc.cc (class IPCRenderer).    *)
(*                                                                         *)
(* The endpoint offers six operations to the scripting context: send,      *)
(* sendSync, sendTo, sendToHost, invoke and postMessage.  Each serializes  *)
(* its value and hands one message to the remote stub                      *)
(* (electron_browser_ptr_).  The model keeps the sequence of messages the  *)
(* stub was handed, the detached state of the message ports, the table of  *)
(* callbacks waiting for an Invoke reply, and the position of the calling  *)
(* context (idle, or blocked inside MessageSync).                          *)
(***************************************************************************)
EXTENDS Naturals, Sequences, FiniteSets

VARIABLES
    remote,     \* messages handed to electron_browser_ptr_, in hand-off order
    neutered,   \* ports disentangled from the sending side
    pending,    \* callbacks waiting for an Invoke reply: {[id, promise]}
    promises,   \* the promises created by Invoke, by creation order
    nextId,     \* next request id of the stub
    pc,         \* "idle", or "blocked" inside MessageSync
    syncReply,  \* <<>> or <<wire>>: the reply to the outstanding MessageSync
    last,       \* the most recent call of one of the six operations
    ncalls,     \* number of calls made so far
    calls,      \* caller-side log: [call, op, channel, ok] per call, in order
    lastReply,  \* the most recent reply delivered by the transport
    replied     \* request ids of Invoke calls whose reply has been delivered

vars == <<remote, neutered, pending, promises, nextId, pc, syncReply, last,
          ncalls, calls, lastReply, replied>>

----------------------------------------------------------------------------
(* Bounds of the model *)

\* calls made under Spec (all six operations)
MaxCalls == 2
\* calls made under SpecNotify (send, sendToHost)
MaxNotify == 3
\* calls made under SpecPost (postMessage)
MaxPosts == 3
\* calls made under SpecCall (invoke, sendSync)
MaxRpc == 2

----------------------------------------------------------------------------
(* Inputs *)

Channels == {"ping", "add"}

WebContentsIds == {1, 2}

Ports == {"p1", "p2"}

\* In-context values: a type and, for an array, its elements.  The element
\* "fn" is a function, which the structured-clone serializer cannot
\* represent; an element that is a port name is a reference to that port.
NullValue == [type |-> "null", elems |-> <<>>]

Undefined == [type |-> "undefined", elems |-> <<>>]

Num5 == [type |-> "number", elems |-> <<"5">>]

Arr23 == [type |-> "array", elems |-> <<"2", "3">>]

ArrFn == [type |-> "array", elems |-> <<"2", "fn">>]

ArrPort == [type |-> "array", elems |-> <<"2", "p1">>]

Values == {Arr23, ArrFn}

\* The values given to postMessage: one of them refers to a port.
PostValues == Values \cup {ArrPort}

\* The optional transfer argument of postMessage: omitted, not an array, or
\* an array of values.  "obj" is an object that is no port, "prim" a
\* primitive value.
NoTransfer == [given |-> FALSE, array |-> FALSE, items |-> <<>>]

NotAnArray == [given |-> TRUE, array |-> FALSE, items |-> <<>>]

TransferOf(items) == [given |-> TRUE, array |-> TRUE, items |-> items]

Transfers ==
    {NoTransfer, NotAnArray, TransferOf(<<>>), TransferOf(<<"p1">>),
     TransferOf(<<"p2", "p1">>), TransferOf(<<"p1", "p1">>),
     TransferOf(<<"p1", "obj">>), TransferOf(<<"obj", "p2">>),
     TransferOf(<<"p1", "prim">>)}

----------------------------------------------------------------------------
(* Value codec: electron::SerializeV8Value / electron::DeserializeV8Value *)

Representable(v) ==
    /\ v.type \in {"null", "undefined", "number", "array"}
    /\ \A i \in 1..Len(v.elems) : v.elems[i] # "fn"

\* The port-reference written in place of a port: it names the port, to be
\* resolved against the ports transferred with the message.
Placeholder(p) == IF p = "p1" THEN "@p1" ELSE "@p2"

EncodeElem(e) == IF e \in Ports THEN Placeholder(e) ELSE e

Encode(v) ==
    CASE v.type = "number" -> <<"I">> \o v.elems
      [] v.type = "array" ->
           <<"A">> \o [i \in 1..Len(v.elems) |-> EncodeElem(v.elems[i])]
                   \o <<"$">>
      [] v.type = "null" -> <<"0">>
      [] OTHER -> <<"_">>

\* [ok, wire]: ok is SerializeV8Value's boolean result, wire the message.
Serialize(v) ==
    IF Representable(v)
      THEN [ok |-> TRUE, wire |-> Encode(v)]
      ELSE [ok |-> FALSE, wire |-> <<>>]

\* A message that cannot be read decodes to null.
Deserialize(w) ==
    IF Len(w) = 0 THEN NullValue
    ELSE IF w[1] = "I" /\ Len(w) = 2
      THEN [type |-> "number", elems |-> <<w[2]>>]
    ELSE IF w[1] = "A" /\ Len(w) >= 2 /\ w[Len(w)] = "$"
      THEN [type |-> "array", elems |-> SubSeq(w, 2, Len(w) - 1)]
    ELSE IF w = <<"_">> THEN Undefined
    ELSE NullValue

ReplyWires == {Encode(Num5), Encode(Arr23)}

----------------------------------------------------------------------------
(* Records *)

Msg(kind, internal, sendToAll, id, channel, payload, ports, reqId) ==
    [kind |-> kind, internal |-> internal, sendToAll |-> sendToAll,
     id |-> id, channel |-> channel, payload |-> payload, ports |-> ports,
     reqId |-> reqId, call |-> ncalls + 1]

CallRec(op, internal, sendToAll, id, channel, value, transfer, ok, threw, status, promise, trace) ==
    [op |-> op, internal |-> internal, sendToAll |-> sendToAll, id |-> id,
     channel |-> channel, value |-> value, transfer |-> transfer,
     ok |-> ok, threw |-> threw, status |-> status, ret |-> Undefined,
     promise |-> promise, trace |-> trace, call |-> ncalls + 1,
     broken |-> FALSE]

NoCall ==
    [op |-> "none", internal |-> FALSE, sendToAll |-> FALSE, id |-> 0,
     channel |-> "", value |-> Undefined, transfer |-> NoTransfer,
     ok |-> FALSE, threw |-> FALSE, status |-> "returned", ret |-> Undefined,
     promise |-> 0, trace |-> <<>>, call |-> 0, broken |-> FALSE]

NoReply == [id |-> 0, wire |-> <<>>, nested |-> FALSE]

Logged(op, channel, ok) ==
    Append(calls, [call |-> ncalls + 1, op |-> op, channel |-> channel,
                   ok |-> ok])

----------------------------------------------------------------------------
Init ==
    /\ remote = <<>>
    /\ neutered = {}
    /\ pending = {}
    /\ promises = <<>>
    /\ nextId = 1
    /\ pc = "idle"
    /\ syncReply = <<>>
    /\ last = NoCall
    /\ ncalls = 0
    /\ calls = <<>>
    /\ lastReply = NoReply
    /\ replied = {}

----------------------------------------------------------------------------
\* Send without the early return on a failed serialization.
SendUnchecked(internal, channel, arguments) ==
    /\ pc = "idle"
    /\ LET ser == Serialize(arguments) IN
         /\ remote' = Append(remote, Msg("Message", internal, FALSE, 0,
                                         channel, ser.wire, <<>>, 0))
         /\ last' = CallRec("send", internal, FALSE, 0, channel, arguments,
                            NoTransfer, ser.ok, ~ser.ok, "returned", 0, <<>>)
         /\ calls' = Logged("send", channel, ser.ok)
    /\ ncalls' = ncalls + 1
    /\ UNCHANGED <<neutered, pending, promises, nextId, pc, syncReply,
                   lastReply, replied>>

\* Send that puts its message ahead of those already handed over.
SendAhead(internal, channel, arguments) ==
    /\ pc = "idle"
    /\ LET ser == Serialize(arguments) IN
         /\ remote' = IF ser.ok
                        THEN <<Msg("Message", internal, FALSE, 0, channel,
                                   ser.wire, <<>>, 0)>> \o remote
                        ELSE remote
         /\ last' = CallRec("send", internal, FALSE, 0, channel, arguments,
                            NoTransfer, ser.ok, ~ser.ok, "returned", 0, <<>>)
         /\ calls' = Logged("send", channel, ser.ok)
    /\ ncalls' = ncalls + 1
    /\ UNCHANGED <<neutered, pending, promises, nextId, pc, syncReply,
                   lastReply, replied>>

(* IPCRenderer::Send *)
Send(internal, channel, arguments) ==
    /\ pc = "idle"
    /\ LET ser == Serialize(arguments) IN
         /\ remote' = IF ser.ok
                        THEN Append(remote, Msg("Message", internal, FALSE, 0,
                                                channel, ser.wire, <<>>, 0))
                        ELSE remote
         /\ last' = CallRec("send", internal, FALSE, 0, channel, arguments,
                            NoTransfer, ser.ok, ~ser.ok, "returned", 0, <<>>)
         /\ calls' = Logged("send", channel, ser.ok)
    /\ ncalls' = ncalls + 1
    /\ UNCHANGED <<neutered, pending, promises, nextId, pc, syncReply,
                   lastReply, replied>>

\* SendTo passing its two flags to MessageTo in the other order.
SendToSwapped(internal, sendToAll, webContentsId, channel, arguments) ==
    /\ pc = "idle"
    /\ LET ser == Serialize(arguments) IN
         /\ remote' = IF ser.ok
                        THEN Append(remote,
                                    Msg("MessageTo", sendToAll, internal,
                                        webContentsId, channel, ser.wire,
                                        <<>>, 0))
                        ELSE remote
         /\ last' = CallRec("sendTo", internal, sendToAll, webContentsId,
                            channel, arguments, NoTransfer, ser.ok, ~ser.ok,
                            "returned", 0, <<>>)
         /\ calls' = Logged("sendTo", channel, ser.ok)
    /\ ncalls' = ncalls + 1
    /\ UNCHANGED <<neutered, pending, promises, nextId, pc, syncReply,
                   lastReply, replied>>

(* IPCRenderer::SendTo *)
SendTo(internal, sendToAll, webContentsId, channel, arguments) ==
    /\ pc = "idle"
    /\ LET ser == Serialize(arguments) IN
         /\ remote' = IF ser.ok
                        THEN Append(remote,
                                    Msg("MessageTo", internal, sendToAll,
                                        webContentsId, channel, ser.wire,
                                        <<>>, 0))
                        ELSE remote
         /\ last' = CallRec("sendTo", internal, sendToAll, webContentsId,
                            channel, arguments, NoTransfer, ser.ok, ~ser.ok,
                            "returned", 0, <<>>)
         /\ calls' = Logged("sendTo", channel, ser.ok)
    /\ ncalls' = ncalls + 1
    /\ UNCHANGED <<neutered, pending, promises, nextId, pc, syncReply,
                   lastReply, replied>>

(* IPCRenderer::SendToHost *)
SendToHost(channel, arguments) ==
    /\ pc = "idle"
    /\ LET ser == Serialize(arguments) IN
         /\ remote' = IF ser.ok
                        THEN Append(remote, Msg("MessageHost", FALSE, FALSE, 0,
                                                channel, ser.wire, <<>>, 0))
                        ELSE remote
         /\ last' = CallRec("sendToHost", FALSE, FALSE, 0, channel, arguments,
                            NoTransfer, ser.ok, ~ser.ok, "returned", 0, <<>>)
         /\ calls' = Logged("sendToHost", channel, ser.ok)
    /\ ncalls' = ncalls + 1
    /\ UNCHANGED <<neutered, pending, promises, nextId, pc, syncReply,
                   lastReply, replied>>

----------------------------------------------------------------------------
(* IPCRenderer::Invoke *)

\* gin_helper::Promise<blink::CloneableMessage> p(isolate)
NewPromise == [state |-> "pending", value |-> Undefined, resolves |-> 0]

\* The callback resolving without its result: p.Resolve().
ResolveWithoutResult(ps, p, result) ==
    [ps EXCEPT ![p] = [state |-> "resolved",
                       value |-> @.value,
                       resolves |-> @.resolves + 1]]

\* The callback bound at Invoke: p.Resolve(result).  A promise settles once;
\* resolves counts the calls of Resolve.
ResolveCallback(ps, p, result) ==
    [ps EXCEPT ![p] = [state |-> "resolved",
                       value |-> IF @.state = "pending"
                                   THEN Deserialize(result)
                                   ELSE @.value,
                       resolves |-> @.resolves + 1]]

\* Invoke with one promise kept for all calls instead of one per call.
InvokeSharedPromise(internal, channel, arguments) ==
    /\ pc = "idle"
    /\ LET ser == Serialize(arguments) IN
         /\ remote' = IF ser.ok
                        THEN Append(remote, Msg("Invoke", internal, FALSE, 0,
                                                channel, ser.wire, <<>>,
                                                nextId))
                        ELSE remote
         /\ promises' = IF ser.ok /\ promises = <<>> THEN <<NewPromise>>
                                                     ELSE promises
         /\ pending' = IF ser.ok
                         THEN pending \cup {[id |-> nextId, promise |-> 1]}
                         ELSE pending
         /\ nextId' = IF ser.ok THEN nextId + 1 ELSE nextId
         /\ last' = CallRec("invoke", internal, FALSE, 0, channel, arguments,
                            NoTransfer, ser.ok, ~ser.ok, "returned",
                            IF ser.ok THEN 1 ELSE 0, <<>>)
         /\ calls' = Logged("invoke", channel, ser.ok)
    /\ ncalls' = ncalls + 1
    /\ UNCHANGED <<neutered, pc, syncReply, lastReply, replied>>

\* Invoke handing the stub no callback.
InvokeWithoutCallback(internal, channel, arguments) ==
    /\ pc = "idle"
    /\ LET ser == Serialize(arguments)
           p == Len(promises) + 1
       IN
         /\ remote' = IF ser.ok
                        THEN Append(remote, Msg("Invoke", internal, FALSE, 0,
                                                channel, ser.wire, <<>>,
                                                nextId))
                        ELSE remote
         /\ promises' = IF ser.ok THEN Append(promises, NewPromise)
                                  ELSE promises
         /\ nextId' = IF ser.ok THEN nextId + 1 ELSE nextId
         /\ last' = CallRec("invoke", internal, FALSE, 0, channel, arguments,
                            NoTransfer, ser.ok, ~ser.ok, "returned",
                            IF ser.ok THEN p ELSE 0, <<>>)
         /\ calls' = Logged("invoke", channel, ser.ok)
    /\ ncalls' = ncalls + 1
    /\ UNCHANGED <<neutered, pending, pc, syncReply, lastReply, replied>>

\* Invoke creating its promise before the serialization and returning its
\* handle whatever the outcome.
InvokePromiseFirst(internal, channel, arguments) ==
    /\ pc = "idle"
    /\ LET ser == Serialize(arguments)
           p == Len(promises) + 1
       IN
         /\ remote' = IF ser.ok
                        THEN Append(remote, Msg("Invoke", internal, FALSE, 0,
                                                channel, ser.wire, <<>>,
                                                nextId))
                        ELSE remote
         /\ promises' = Append(promises, NewPromise)
         /\ pending' = IF ser.ok
                         THEN pending \cup {[id |-> nextId, promise |-> p]}
                         ELSE pending
         /\ nextId' = IF ser.ok THEN nextId + 1 ELSE nextId
         /\ last' = CallRec("invoke", internal, FALSE, 0, channel, arguments,
                            NoTransfer, ser.ok, ~ser.ok, "returned", p, <<>>)
         /\ calls' = Logged("invoke", channel, ser.ok)
    /\ ncalls' = ncalls + 1
    /\ UNCHANGED <<neutered, pc, syncReply, lastReply, replied>>

Invoke(internal, channel, arguments) ==
    /\ pc = "idle"
    /\ LET ser == Serialize(arguments)
           p == Len(promises) + 1
       IN
         /\ remote' = IF ser.ok
                        THEN Append(remote, Msg("Invoke", internal, FALSE, 0,
                                                channel, ser.wire, <<>>,
                                                nextId))
                        ELSE remote
         /\ promises' = IF ser.ok THEN Append(promises, NewPromise)
                                  ELSE promises
         /\ pending' = IF ser.ok
                         THEN pending \cup {[id |-> nextId, promise |-> p]}
                         ELSE pending
         /\ nextId' = IF ser.ok THEN nextId + 1 ELSE nextId
         /\ last' = CallRec("invoke", internal, FALSE, 0, channel, arguments,
                            NoTransfer, ser.ok, ~ser.ok, "returned",
                            IF ser.ok THEN p ELSE 0, <<>>)
         /\ calls' = Logged("invoke", channel, ser.ok)
    /\ ncalls' = ncalls + 1
    /\ UNCHANGED <<neutered, pc, syncReply, lastReply, replied>>

\* Request ids of the Invoke messages handed to the stub so far.
IssuedIds == {remote[i].reqId : i \in {j \in 1..Len(remote) :
                                        remote[j].kind = "Invoke"}}

\* The stub's reply path: a reply carrying correlation id `id` arrives.  The
\* callback registered under id runs once and its entry is removed; a reply
\* whose id is not in the table is discarded.
DeliverReply(id, result) ==
    /\ IF \E e \in pending : e.id = id
         THEN LET e == CHOOSE x \in pending : x.id = id IN
                /\ promises' = ResolveCallback(promises, e.promise, result)
                /\ pending' = pending \ {e}
         ELSE UNCHANGED <<promises, pending>>
    /\ lastReply' = [id |-> id, wire |-> result, nested |-> pc = "blocked"]
    /\ replied' = replied \cup ({id} \cap IssuedIds)
    /\ UNCHANGED <<remote, neutered, nextId, pc, syncReply, last, ncalls,
                   calls>>

----------------------------------------------------------------------------
(* IPCRenderer::SendSync *)

\* Serialization and electron_browser_ptr_->MessageSync: the calling context
\* blocks inside the stub until the reply is there.
\* SendSync made as an invoke that is waited for: the call leaves a
\* promise and a callback behind, as Invoke does.
SendSyncRegistering(internal, channel, arguments) ==
    /\ pc = "idle"
    /\ LET ser == Serialize(arguments)
           p == Len(promises) + 1
       IN
         /\ remote' = IF ser.ok
                        THEN Append(remote,
                                    Msg("MessageSync", internal, FALSE, 0,
                                        channel, ser.wire, <<>>, nextId))
                        ELSE remote
         /\ promises' = IF ser.ok THEN Append(promises, NewPromise)
                                  ELSE promises
         /\ pending' = IF ser.ok
                         THEN pending \cup {[id |-> nextId, promise |-> p]}
                         ELSE pending
         /\ pc' = IF ser.ok THEN "blocked" ELSE "idle"
         /\ nextId' = IF ser.ok THEN nextId + 1 ELSE nextId
         /\ last' = CallRec("sendSync", internal, FALSE, 0, channel,
                            arguments, NoTransfer, ser.ok, ~ser.ok,
                            IF ser.ok THEN "suspended" ELSE "returned", 0,
                            <<>>)
         /\ calls' = Logged("sendSync", channel, ser.ok)
    /\ ncalls' = ncalls + 1
    /\ syncReply' = <<>>
    /\ UNCHANGED <<neutered, lastReply, replied>>

SendSyncCall(internal, channel, arguments) ==
    /\ pc = "idle"
    /\ LET ser == Serialize(arguments) IN
         /\ remote' = IF ser.ok
                        THEN Append(remote,
                                    Msg("MessageSync", internal, FALSE, 0,
                                        channel, ser.wire, <<>>, nextId))
                        ELSE remote
         /\ pc' = IF ser.ok THEN "blocked" ELSE "idle"
         /\ nextId' = IF ser.ok THEN nextId + 1 ELSE nextId
         /\ last' = CallRec("sendSync", internal, FALSE, 0, channel,
                            arguments, NoTransfer, ser.ok, ~ser.ok,
                            IF ser.ok THEN "suspended" ELSE "returned", 0,
                            <<>>)
         /\ calls' = Logged("sendSync", channel, ser.ok)
    /\ ncalls' = ncalls + 1
    /\ syncReply' = <<>>
    /\ UNCHANGED <<neutered, pending, promises, lastReply, replied>>

\* The remote side answers the outstanding MessageSync, once.
RemoteSyncReply(result) ==
    /\ pc = "blocked"
    /\ syncReply = <<>>
    /\ syncReply' = <<result>>
    /\ UNCHANGED <<remote, neutered, pending, promises, nextId, pc, last,
                   ncalls, calls, lastReply, replied>>

\* A return that does not wait for the reply: result is still empty.
SendSyncReturnEarly ==
    /\ pc = "blocked"
    /\ last' = [last EXCEPT !.status = "returned",
                            !.ret = Deserialize(IF syncReply = <<>>
                                                  THEN <<>>
                                                  ELSE syncReply[1])]
    /\ pc' = "idle"
    /\ syncReply' = <<>>
    /\ UNCHANGED <<remote, neutered, pending, promises, nextId, ncalls, calls,
                   lastReply, replied>>

\* A return of whatever message came in last: the reply of an invoke
\* delivered while the call was blocked takes the place of its own reply.
SendSyncReturnLatest ==
    /\ pc = "blocked"
    /\ syncReply # <<>>
    /\ last' = [last EXCEPT !.status = "returned",
                            !.ret = Deserialize(IF lastReply.nested
                                                  THEN lastReply.wire
                                                  ELSE syncReply[1])]
    /\ pc' = "idle"
    /\ syncReply' = <<>>
    /\ UNCHANGED <<remote, neutered, pending, promises, nextId, ncalls, calls,
                   lastReply, replied>>

\* MessageSync returns with the reply in `result`;
\* return electron::DeserializeV8Value(isolate, result).
SendSyncReturn ==
    /\ pc = "blocked"
    /\ syncReply # <<>>
    /\ last' = [last EXCEPT !.status = "returned",
                            !.ret = Deserialize(syncReply[1])]
    /\ pc' = "idle"
    /\ syncReply' = <<>>
    /\ UNCHANGED <<remote, neutered, pending, promises, nextId, ncalls, calls,
                   lastReply, replied>>

\* The transport fails while the call is blocked and no reply has come:
\* MessageSync returns false, which SendSync does not look at, with `result`
\* as it was constructed; SendSync returns its decoding and throws nothing.
SendSyncTransportError ==
    /\ pc = "blocked"
    /\ syncReply = <<>>
    /\ last' = [last EXCEPT !.status = "returned",
                            !.ret = Deserialize(<<>>),
                            !.broken = TRUE]
    /\ pc' = "idle"
    /\ UNCHANGED <<remote, neutered, pending, promises, nextId, syncReply,
                   ncalls, calls, lastReply, replied>>

----------------------------------------------------------------------------
(* IPCRenderer::PostMessage *)

\* gin::ConvertFromV8(isolate, *transfer, &transferables): the argument is an
\* array and each element an object.
ConvertibleToObjects(transfer) ==
    /\ transfer.array
    /\ \A i \in 1..Len(transfer.items) : transfer.items[i] # "prim"

\* blink::WebMessagePortConverter::DisentangleAndExtractMessagePortChannel:
\* a port that is still entangled is neutered and its channel returned;
\* anything else (no port, or a port already neutered) gives nothing.
Disentangle(neut, obj) ==
    IF obj \in Ports /\ obj \notin neut
      THEN [has_value |-> TRUE, port |-> obj, neutered |-> neut \cup {obj}]
      ELSE [has_value |-> FALSE, port |-> obj, neutered |-> neut]

\* The loop putting each extracted port in front of those collected so far.
RECURSIVE ExtractPortsReversed(_, _, _, _, _)
ExtractPortsReversed(items, i, neut, ports, trace) ==
    IF i > Len(items)
      THEN [ok |-> TRUE, neutered |-> neut, ports |-> ports, trace |-> trace]
      ELSE LET port == Disentangle(neut, items[i]) IN
             IF ~port.has_value
               THEN [ok |-> FALSE, neutered |-> port.neutered,
                     ports |-> ports, trace |-> Append(trace, "reject")]
               ELSE ExtractPortsReversed(items, i + 1, port.neutered,
                                         <<port.port>> \o ports,
                                         Append(trace, "extract"))

\* The loop over transferables, from index i, with the ports collected so
\* far.  It stops at the first transferable that gives no port.
RECURSIVE ExtractPorts(_, _, _, _, _)
ExtractPorts(items, i, neut, ports, trace) ==
    IF i > Len(items)
      THEN [ok |-> TRUE, neutered |-> neut, ports |-> ports, trace |-> trace]
      ELSE LET port == Disentangle(neut, items[i]) IN
             IF ~port.has_value
               THEN [ok |-> FALSE, neutered |-> port.neutered,
                     ports |-> ports, trace |-> Append(trace, "reject")]
               ELSE ExtractPorts(items, i + 1, port.neutered,
                                 Append(ports, port.port),
                                 Append(trace, "extract"))

\* The loop with `continue` in place of the throw and return.
RECURSIVE ExtractPortsSkipping(_, _, _, _, _)
ExtractPortsSkipping(items, i, neut, ports, trace) ==
    IF i > Len(items)
      THEN [ok |-> TRUE, neutered |-> neut, ports |-> ports, trace |-> trace]
      ELSE LET port == Disentangle(neut, items[i]) IN
             IF ~port.has_value
               THEN ExtractPortsSkipping(items, i + 1, port.neutered, ports,
                                         Append(trace, "reject"))
               ELSE ExtractPortsSkipping(items, i + 1, port.neutered,
                                         Append(ports, port.port),
                                         Append(trace, "extract"))

\* PostMessage that sends what it could extract.
PostMessageSkipInvalid(neut, message_value, transfer) ==
    LET ser == Serialize(message_value) IN
    IF ~ser.ok
      THEN [sent |-> FALSE, threw |-> TRUE, neutered |-> neut,
            payload |-> <<>>, ports |-> <<>>, trace |-> <<"serialize">>]
    ELSE IF transfer.given /\ ~ConvertibleToObjects(transfer)
      THEN [sent |-> FALSE, threw |-> TRUE, neutered |-> neut,
            payload |-> <<>>, ports |-> <<>>,
            trace |-> <<"serialize", "convert">>]
    ELSE LET ex == ExtractPortsSkipping(
                     IF transfer.given THEN transfer.items ELSE <<>>,
                     1, neut, <<>>,
                     IF transfer.given THEN <<"serialize", "convert">>
                                       ELSE <<"serialize">>)
         IN [sent |-> TRUE, threw |-> FALSE, neutered |-> ex.neutered,
             payload |-> ser.wire, ports |-> ex.ports,
             trace |-> Append(ex.trace, "send")]

\* The loop without the has_value test: whatever was nominated is taken
\* as a port.
RECURSIVE ExtractPortsUnchecked(_, _, _, _, _)
ExtractPortsUnchecked(items, i, neut, ports, trace) ==
    IF i > Len(items)
      THEN [ok |-> TRUE, neutered |-> neut, ports |-> ports, trace |-> trace]
      ELSE LET port == Disentangle(neut, items[i]) IN
             ExtractPortsUnchecked(items, i + 1, port.neutered,
                                   Append(ports, port.port),
                                   Append(trace, "extract"))

\* PostMessage that does not test what the converter returned.
PostMessageUnchecked(neut, message_value, transfer) ==
    LET ser == Serialize(message_value) IN
    IF ~ser.ok
      THEN [sent |-> FALSE, threw |-> TRUE, neutered |-> neut,
            payload |-> <<>>, ports |-> <<>>, trace |-> <<"serialize">>]
    ELSE IF transfer.given /\ ~ConvertibleToObjects(transfer)
      THEN [sent |-> FALSE, threw |-> TRUE, neutered |-> neut,
            payload |-> <<>>, ports |-> <<>>,
            trace |-> <<"serialize", "convert">>]
    ELSE LET ex == ExtractPortsUnchecked(
                     IF transfer.given THEN transfer.items ELSE <<>>,
                     1, neut, <<>>,
                     IF transfer.given THEN <<"serialize", "convert">>
                                       ELSE <<"serialize">>)
         IN [sent |-> TRUE, threw |-> FALSE, neutered |-> ex.neutered,
             payload |-> ser.wire, ports |-> ex.ports,
             trace |-> Append(ex.trace, "send")]

\* PostMessage that writes the extracted ports into the message body and
\* leaves the message's ports empty.
PostMessagePortsInPayload(neut, message_value, transfer) ==
    LET ser == Serialize(message_value) IN
    IF ~ser.ok
      THEN [sent |-> FALSE, threw |-> TRUE, neutered |-> neut,
            payload |-> <<>>, ports |-> <<>>, trace |-> <<"serialize">>]
    ELSE IF transfer.given /\ ~ConvertibleToObjects(transfer)
      THEN [sent |-> FALSE, threw |-> TRUE, neutered |-> neut,
            payload |-> <<>>, ports |-> <<>>,
            trace |-> <<"serialize", "convert">>]
    ELSE LET ex == ExtractPorts(IF transfer.given THEN transfer.items
                                                  ELSE <<>>,
                                1, neut, <<>>,
                                IF transfer.given
                                  THEN <<"serialize", "convert">>
                                  ELSE <<"serialize">>)
         IN IF ~ex.ok
              THEN [sent |-> FALSE, threw |-> TRUE, neutered |-> ex.neutered,
                    payload |-> <<>>, ports |-> <<>>, trace |-> ex.trace]
              ELSE [sent |-> TRUE, threw |-> FALSE, neutered |-> ex.neutered,
                    payload |-> [i \in 1..Len(ser.wire) |->
                                   IF \E p \in Ports :
                                        /\ ser.wire[i] = Placeholder(p)
                                        /\ \E k \in 1..Len(ex.ports) :
                                             ex.ports[k] = p
                                     THEN CHOOSE p \in Ports :
                                            ser.wire[i] = Placeholder(p)
                                     ELSE ser.wire[i]],
                    ports |-> ex.ports,
                    trace |-> Append(ex.trace, "send")]

\* PostMessage without the return after a failed serialization: the
\* exception is pending, the transfer list is still worked through, and
\* nothing is sent.
PostMessageNoEarlyReturn(neut, message_value, transfer) ==
    LET ser == Serialize(message_value) IN
    IF transfer.given /\ ~ConvertibleToObjects(transfer)
      THEN [sent |-> FALSE, threw |-> TRUE, neutered |-> neut,
            payload |-> <<>>, ports |-> <<>>,
            trace |-> <<"serialize", "convert">>]
    ELSE LET ex == ExtractPorts(IF transfer.given THEN transfer.items
                                                  ELSE <<>>,
                                1, neut, <<>>,
                                IF transfer.given
                                  THEN <<"serialize", "convert">>
                                  ELSE <<"serialize">>)
         IN IF ~ex.ok \/ ~ser.ok
              THEN [sent |-> FALSE, threw |-> TRUE, neutered |-> ex.neutered,
                    payload |-> <<>>, ports |-> <<>>, trace |-> ex.trace]
              ELSE [sent |-> TRUE, threw |-> FALSE, neutered |-> ex.neutered,
                    payload |-> ser.wire, ports |-> ex.ports,
                    trace |-> Append(ex.trace, "send")]

\* PostMessage that extracts the ports first and serializes afterwards.
PostMessageExtractFirst(neut, message_value, transfer) ==
    IF transfer.given /\ ~ConvertibleToObjects(transfer)
      THEN [sent |-> FALSE, threw |-> TRUE, neutered |-> neut,
            payload |-> <<>>, ports |-> <<>>, trace |-> <<"convert">>]
    ELSE LET ex == ExtractPorts(IF transfer.given THEN transfer.items
                                                  ELSE <<>>,
                                1, neut, <<>>,
                                IF transfer.given THEN <<"convert">>
                                                  ELSE <<>>)
             ser == Serialize(message_value)
         IN IF ~ex.ok
              THEN [sent |-> FALSE, threw |-> TRUE, neutered |-> ex.neutered,
                    payload |-> <<>>, ports |-> <<>>, trace |-> ex.trace]
            ELSE IF ~ser.ok
              THEN [sent |-> FALSE, threw |-> TRUE, neutered |-> ex.neutered,
                    payload |-> <<>>, ports |-> <<>>,
                    trace |-> Append(ex.trace, "serialize")]
              ELSE [sent |-> TRUE, threw |-> FALSE, neutered |-> ex.neutered,
                    payload |-> ser.wire, ports |-> ex.ports,
                    trace |-> ex.trace \o <<"serialize", "send">>]

\* The body of PostMessage on the port state neut: whether the message was
\* handed to the stub, whether an exception was thrown, the port state
\* after the call, the message's payload and ports, and the steps taken.
PostMessageOutcome(neut, message_value, transfer) ==
    LET ser == Serialize(message_value) IN
    IF ~ser.ok
      THEN [sent |-> FALSE, threw |-> TRUE, neutered |-> neut,
            payload |-> <<>>, ports |-> <<>>, trace |-> <<"serialize">>]
    ELSE IF transfer.given /\ ~ConvertibleToObjects(transfer)
      THEN [sent |-> FALSE, threw |-> TRUE, neutered |-> neut,
            payload |-> <<>>, ports |-> <<>>,
            trace |-> <<"serialize", "convert">>]
    ELSE LET ex == ExtractPorts(IF transfer.given THEN transfer.items
                                                  ELSE <<>>,
                                1, neut, <<>>,
                                IF transfer.given
                                  THEN <<"serialize", "convert">>
                                  ELSE <<"serialize">>)
         IN IF ~ex.ok
              THEN [sent |-> FALSE, threw |-> TRUE, neutered |-> ex.neutered,
                    payload |-> <<>>, ports |-> <<>>, trace |-> ex.trace]
              ELSE [sent |-> TRUE, threw |-> FALSE, neutered |-> ex.neutered,
                    payload |-> ser.wire, ports |-> ex.ports,
                    trace |-> Append(ex.trace, "send")]

PostMessage(channel, message_value, transfer) ==
    /\ pc = "idle"
    /\ LET out == PostMessageOutcome(neutered, message_value, transfer) IN
         /\ remote' = IF out.sent
                        THEN Append(remote,
                                    Msg("ReceivePostMessage", FALSE, FALSE, 0,
                                        channel, out.payload, out.ports, 0))
                        ELSE remote
         /\ neutered' = out.neutered
         /\ last' = CallRec("postMessage", FALSE, FALSE, 0, channel,
                            message_value, transfer,
                            Serialize(message_value).ok, out.threw,
                            "returned", 0, out.trace)
         /\ calls' = Logged("postMessage", channel, out.sent)
    /\ ncalls' = ncalls + 1
    /\ UNCHANGED <<pending, promises, nextId, pc, syncReply, lastReply,
                   replied>>

----------------------------------------------------------------------------
(* Specifications *)

\* Reply ids the transport may carry: those handed out so far and one that
\* was never handed out.
ReplyIds == 1..nextId

\* All six operations and the reply paths.
Next ==
    \/ \E internal \in BOOLEAN, channel \in Channels, v \in Values :
         ncalls < MaxCalls /\ Send(internal, channel, v)
    \/ \E internal \in BOOLEAN, channel \in Channels, v \in Values :
         ncalls < MaxCalls /\ SendSyncCall(internal, channel, v)
    \/ \E internal \in BOOLEAN, sendToAll \in BOOLEAN, id \in WebContentsIds,
          channel \in Channels, v \in Values :
         ncalls < MaxCalls /\ SendTo(internal, sendToAll, id, channel, v)
    \/ \E channel \in Channels, v \in Values :
         ncalls < MaxCalls /\ SendToHost(channel, v)
    \/ \E internal \in BOOLEAN, channel \in Channels, v \in Values :
         ncalls < MaxCalls /\ Invoke(internal, channel, v)
    \/ \E channel \in Channels, v \in Values, transfer \in Transfers :
         ncalls < MaxCalls /\ PostMessage(channel, v, transfer)
    \/ \E result \in ReplyWires : RemoteSyncReply(result)
    \/ SendSyncReturn
    \/ \E id \in ReplyIds, result \in ReplyWires : DeliverReply(id, result)

Spec == Init /\ [][Next]_vars

\* The fire-and-forget operations addressed by channel.
NextNotify ==
    \/ \E internal \in BOOLEAN, channel \in Channels, v \in Values :
         ncalls < MaxNotify /\ Send(internal, channel, v)
    \/ \E channel \in Channels, v \in Values :
         ncalls < MaxNotify /\ SendToHost(channel, v)

SpecNotify == Init /\ [][NextNotify]_vars

\* postMessage alone.
NextPost ==
    \E channel \in Channels, v \in PostValues, transfer \in Transfers :
      ncalls < MaxPosts /\ PostMessage(channel, v, transfer)

SpecPost == Init /\ [][NextPost]_vars

\* The two round-trip operations and the reply paths.
NextCall ==
    \/ \E internal \in BOOLEAN, channel \in Channels, v \in Values :
         ncalls < MaxRpc /\ Invoke(internal, channel, v)
    \/ \E internal \in BOOLEAN, channel \in Channels, v \in Values :
         ncalls < MaxRpc /\ SendSyncCall(internal, channel, v)
    \/ \E result \in ReplyWires : RemoteSyncReply(result)
    \/ SendSyncReturn
    \/ \E id \in ReplyIds, result \in ReplyWires : DeliverReply(id, result)

SpecCall == Init /\ [][NextCall]_vars

\* The round-trip operations over a transport that may fail during a
\* blocking call.
NextFault ==
    \/ \E internal \in BOOLEAN, channel \in Channels, v \in Values :
         ncalls < MaxRpc /\ Invoke(internal, channel, v)
    \/ \E internal \in BOOLEAN, channel \in Channels, v \in Values :
         ncalls < MaxRpc /\ SendSyncCall(internal, channel, v)
    \/ \E result \in ReplyWires : RemoteSyncReply(result)
    \/ SendSyncReturn
    \/ SendSyncTransportError
    \/ \E id \in ReplyIds, result \in ReplyWires : DeliverReply(id, result)

SpecFault == Init /\ [][NextFault]_vars

----------------------------------------------------------------------------
(* Helpers of the properties *)

\* The step is a call of one of the six operations.
IsCall == ncalls' = ncalls + 1

\* The step is a call of postMessage.
IsPost == IsCall /\ last'.op = "postMessage"

\* Ports named in a transfer argument.
Nominated(transfer) ==
    {transfer.items[i] : i \in 1..Len(transfer.items)} \cap Ports

\* Positions of the step named ev in a trace.
Positions(trace, ev) == {i \in 1..Len(trace) : trace[i] = ev}

\* A transfer argument with an entry that gives no port on the port state
\* neut: not an array of objects, an entry that is no port, a port already
\* neutered, or a port named twice.
InvalidNomination(transfer, neut) ==
    /\ transfer.given
    /\ \/ ~ConvertibleToObjects(transfer)
       \/ \E i \in 1..Len(transfer.items) :
            \/ transfer.items[i] \notin Ports
            \/ transfer.items[i] \in neut
            \/ \E j \in 1..(i - 1) : transfer.items[j] = transfer.items[i]

----------------------------------------------------------------------------
(* C1: fail-closed encoding.  A call of any of the six operations whose    *)
(* value fails to serialize hands nothing to the remote stub: the sequence *)
(* of messages the remote side observes is unchanged by the call.          *)
C1_FailClosed ==
    [][(IsCall /\ ~last'.ok) => remote' = remote]_vars

\* A failed call made after a message had been sent.
C1_Witness ==
    /\ last.op \in {"send", "sendSync", "sendTo", "sendToHost", "invoke",
                    "postMessage"}
    /\ ~last.ok
    /\ last.threw
    /\ Len(remote) = 1
    /\ remote[1].call < last.call

(* C2: postMessage is all-or-nothing over its transfer list.  After the    *)
(* call either the message was sent and every nominated port is detached,  *)
(* or the message was not sent and the call detached no port.              *)
C2_AllOrNothing ==
    [][IsPost =>
         \/ /\ remote' # remote
            /\ Nominated(last'.transfer) \subseteq neutered'
         \/ /\ remote' = remote
            /\ neutered' = neutered]_vars

(* C3: a transfer argument that is not an array of objects, or that names  *)
(* an entry giving no port, makes postMessage throw at the call site, and  *)
(* ReceivePostMessage is not invoked.                                      *)
C3_InvalidTransferAborts ==
    [][(IsPost /\ InvalidNomination(last'.transfer, neutered)) =>
         /\ last'.threw
         /\ remote' = remote]_vars

\* A postMessage whose value serialized and whose transfer list was
\* rejected at its second entry.
C3_Witness ==
    /\ last.op = "postMessage"
    /\ last.ok
    /\ last.threw
    /\ last.trace = <<"serialize", "convert", "extract", "reject">>

(* C4 as stated: in postMessage no port is extracted after the value has   *)
(* been serialized (extraction comes first).                               *)
C4_ExtractBeforeSerialize ==
    last.op = "postMessage" =>
      \A i \in Positions(last.trace, "serialize") :
        \A j \in Positions(last.trace, "extract") : j < i

(* C4 amended: in postMessage the value is serialized first.  The          *)
(* conversion of the transfer list and every extraction or rejection of a  *)
(* nominated port come after the serialization, and before the message is  *)
(* handed to the remote stub.                                              *)
C4_SerializeBeforeExtract ==
    last.op = "postMessage" =>
      /\ Len(last.trace) >= 1
      /\ Positions(last.trace, "serialize") = {1}
      /\ \A j \in 1..Len(last.trace) :
           last.trace[j] \in {"convert", "extract", "reject"} =>
             /\ 1 < j
             /\ \A k \in Positions(last.trace, "send") : j < k

\* A postMessage that extracted two ports and sent the message.
C4_Witness ==
    /\ last.op = "postMessage"
    /\ last.trace = <<"serialize", "convert", "extract", "extract", "send">>
    /\ Len(remote) >= 1

(* C5 as stated: once a port has been included in the transfer list of a   *)
(* postMessage call it is detached on the sending side.                    *)
C5_NominatedIsDetached ==
    last.op = "postMessage" => Nominated(last.transfer) \subseteq neutered

\* Ports carried by the messages handed to the stub, with multiplicity.
SentPortCount(p) ==
    Cardinality(UNION {{<<i, k>> : k \in {j \in 1..Len(remote[i].ports) :
                                            remote[i].ports[j] = p}} :
                       i \in 1..Len(remote)})

(* C5 amended: once a port has been extracted by a postMessage call (the   *)
(* value serialized, the transfer list converted, and the extraction loop  *)
(* reached the port) it is detached for ever after; a later postMessage    *)
(* that nominates it throws and sends nothing, and no port is carried by   *)
(* more than one message or twice by one message.                          *)
C5_TransferExclusive ==
    /\ [](/\ \A p \in Ports : SentPortCount(p) <= 1
          /\ \A i \in 1..Len(remote) : \A k \in 1..Len(remote[i].ports) :
               remote[i].ports[k] \in neutered
          /\ last.op = "postMessage" =>
               \A i \in 1..Cardinality(Positions(last.trace, "extract")) :
                 last.transfer.items[i] \in neutered)
    /\ [][/\ neutered \subseteq neutered'
          /\ (IsPost /\ Nominated(last'.transfer) \cap neutered # {}) =>
               /\ last'.threw
               /\ remote' = remote]_vars

\* A port sent by one postMessage and nominated again by a later one,
\* whose value serialized.
C5_Witness ==
    /\ last.op = "postMessage"
    /\ last.ok
    /\ last.threw
    /\ \E i \in 1..Len(remote) : \E k \in 1..Len(remote[i].ports) :
         /\ remote[i].ports[k] \in Nominated(last.transfer)
         /\ remote[i].call < last.call

----------------------------------------------------------------------------
(* Helpers of the round-trip properties *)

PendingIds == {e.id : e \in pending}

\* The step is a reply delivery (or leaves every variable but the reply
\* bookkeeping alone): no call, and the blocking call neither answered nor
\* resumed.
IsDelivery ==
    /\ ncalls' = ncalls
    /\ pc' = pc
    /\ syncReply' = syncReply

\* The step is a successful call of invoke.
IsInvoke == IsCall /\ last'.op = "invoke" /\ last'.ok

(* C6: single resolution.  The promise of every invoke is resolved at most *)
(* once over any sequence of reply deliveries, and a reply whose           *)
(* correlation id is not in the table (unknown, or already resolved) is    *)
(* discarded: the table and every promise stay as they were.               *)
C6_SingleResolution ==
    /\ [](\A p \in 1..Len(promises) :
            /\ promises[p].resolves <= 1
            /\ promises[p].state = "resolved" <=> promises[p].resolves = 1)
    /\ [][(IsDelivery /\ lastReply'.id \notin PendingIds) =>
            /\ pending' = pending
            /\ promises' = promises]_vars

\* A promise resolved by the first reply to its call, after which a second
\* reply to the same call, with another payload, has been delivered.
C6_Witness ==
    /\ Len(promises) = 1
    /\ promises[1].state = "resolved"
    /\ promises[1].resolves = 1
    /\ IssuedIds = {lastReply.id}
    /\ replied = IssuedIds
    /\ pending = {}
    /\ promises[1].value # Deserialize(lastReply.wire)

(* C7: pending-call lifecycle.  The table holds exactly the invoke calls   *)
(* handed to the stub whose reply has not been delivered, one entry each;  *)
(* an entry appears only with the successful invoke that issued it and     *)
(* disappears only in the delivery of the reply carrying its id, which     *)
(* resolves its promise: nothing else, and no passing of time, removes it. *)
C7_PendingLifecycle ==
    /\ [](/\ PendingIds = IssuedIds \ replied
          /\ Cardinality(pending) = Cardinality(PendingIds)
          /\ \A e \in pending :
               /\ e.promise \in 1..Len(promises)
               /\ promises[e.promise].state = "pending")
    /\ [][/\ \A e \in pending \ pending' :
               /\ IsDelivery
               /\ lastReply'.id = e.id
               /\ promises[e.promise].state = "pending"
               /\ promises'[e.promise].state = "resolved"
          /\ \A e \in pending' \ pending :
               /\ IsInvoke
               /\ e.promise = last'.promise
               /\ Len(remote') = Len(remote) + 1
               /\ remote'[Len(remote')].kind = "Invoke"
               /\ remote'[Len(remote')].reqId = e.id]_vars

\* One call answered and removed while another is still in the table.
C7_Witness ==
    /\ replied # {}
    /\ pending # {}
    /\ Cardinality(IssuedIds) = 2

(* C8: invoke never blocks.  A successful invoke returns with the calling  *)
(* context still running and its promise unresolved, its callback          *)
(* registered under a correlation id that no other outstanding call uses;  *)
(* the promise is resolved only by a later step, the delivery of the reply *)
(* carrying that id, and with the decoding of that reply.                  *)
C8_InvokeNeverBlocks ==
    /\ [][IsInvoke =>
            /\ pc' = "idle"
            /\ last'.status = "returned"
            /\ last'.promise = Len(promises')
            /\ last'.promise \notin 1..Len(promises)
            /\ promises'[last'.promise].state = "pending"
            /\ \E e \in pending' \ pending :
                 /\ e.promise = last'.promise
                 /\ e.id \notin PendingIds
                 /\ pending' = pending \cup {e}]_vars
    /\ [][\A p \in 1..Len(promises) :
            (promises[p].state = "pending" /\ promises'[p].state = "resolved")
              => /\ IsDelivery
                 /\ \E e \in pending :
                      /\ e.promise = p
                      /\ lastReply'.id = e.id
                 /\ promises'[p].value = Deserialize(lastReply'.wire)]_vars

\* Two calls outstanding, then the second one answered: its promise holds
\* the decoded reply and the first is still unresolved.
C8_Witness ==
    /\ Len(promises) = 2
    /\ promises[1].state = "pending"
    /\ promises[2].state = "resolved"
    /\ promises[2].value = Num5
    /\ last.op = "invoke"
    /\ last.promise = 2

Tags(log) == [i \in 1..Len(log) |-> log[i].call]

(* C10: FIFO per endpoint and channel.  On every channel the remote side   *)
(* observes the messages of the successful send calls in the order of the  *)
(* calls, each once; a failed call in between neither reorders nor drops   *)
(* them.                                                                   *)
C10_Fifo ==
    \A c \in Channels :
      LET Observed(m) == m.kind = "Message" /\ m.channel = c
          Issued(x) == x.op = "send" /\ x.ok /\ x.channel = c
      IN Tags(SelectSeq(remote, Observed)) = Tags(SelectSeq(calls, Issued))

\* send A, a send that failed to serialize, send B, all on one channel.
C10_Witness ==
    /\ Len(calls) = 3
    /\ \A i \in 1..3 : calls[i].op = "send" /\ calls[i].channel = "ping"
    /\ calls[1].ok
    /\ ~calls[2].ok
    /\ calls[3].ok
    /\ Len(remote) = 2

----------------------------------------------------------------------------
C12_TransportFailureIsError ==
    last.broken => (last.status = "returned" /\ last.threw)

(* C13: serialization and transfer-validation errors are reported         *)
(* synchronously.  A call of any of the six operations that fails in       *)
(* serialization, or a postMessage whose transfer list is rejected, has    *)
(* thrown when it returns; it returns at once, without suspending, with an *)
(* empty value, no promise handed back and no entry or promise created,    *)
(* and nothing handed to the remote stub.                                  *)
C13_ErrorsSynchronous ==
    [][(IsCall /\ (\/ ~last'.ok
                   \/ /\ last'.op = "postMessage"
                      /\ InvalidNomination(last'.transfer, neutered))) =>
         /\ last'.threw
         /\ last'.status = "returned"
         /\ pc' = "idle"
         /\ last'.ret = Undefined
         /\ last'.promise = 0
         /\ pending' = pending
         /\ promises' = promises
         /\ remote' = remote]_vars

\* An invoke that failed to serialize, made while an earlier invoke is
\* outstanding: it threw and registered nothing.
C13_Witness ==
    /\ last.op = "invoke"
    /\ last.call = 2
    /\ ~last.ok
    /\ last.threw
    /\ last.promise = 0
    /\ Cardinality(pending) = 1
    /\ Len(promises) = 1

\* The set of elements of a sequence.
Range(seq) == {seq[i] : i \in 1..Len(seq)}

KindOf(op) ==
    CASE op = "send" -> "Message"
      [] op = "sendTo" -> "MessageTo"
      [] op = "sendToHost" -> "MessageHost"
      [] op = "sendSync" -> "MessageSync"
      [] op = "invoke" -> "Invoke"
      [] OTHER -> "ReceivePostMessage"

(* C15: a call whose value serializes (and, for postMessage, whose         *)
(* transfer list is valid) hands exactly one message to the remote stub,   *)
(* through the primitive of its operation, after the messages handed over  *)
(* before; the message carries the caller's channel, internal flag,        *)
(* sendToAll flag and target id unchanged, and its payload is the          *)
(* serialization of the caller's value.                                    *)
C15_OneMessagePerCall ==
    [][(IsCall /\ last'.ok
          /\ (last'.op = "postMessage" =>
                ~InvalidNomination(last'.transfer, neutered))) =>
         /\ Len(remote') = Len(remote) + 1
         /\ SubSeq(remote', 1, Len(remote)) = remote
         /\ remote'[Len(remote')].kind = KindOf(last'.op)
         /\ remote'[Len(remote')].channel = last'.channel
         /\ remote'[Len(remote')].internal = last'.internal
         /\ remote'[Len(remote')].sendToAll = last'.sendToAll
         /\ remote'[Len(remote')].id = last'.id
         /\ remote'[Len(remote')].payload = Serialize(last'.value).wire
         /\ remote'[Len(remote')].call = last'.call]_vars

\* sendTo(true, false, 2, "ping", [2,3]) made after another message: the
\* remote side has MessageTo with these arguments as its second message.
C15_Witness ==
    /\ last.op = "sendTo"
    /\ last.internal
    /\ ~last.sendToAll
    /\ last.id = 2
    /\ last.channel = "ping"
    /\ last.value = Arr23
    /\ Len(remote) = 2
    /\ remote[2].kind = "MessageTo"
    /\ remote[2].internal
    /\ ~remote[2].sendToAll
    /\ remote[2].id = 2
    /\ remote[2].payload = <<"A", "2", "3", "$">>

(* C16: the ports of the message a postMessage hands to the stub are the  *)
(* entries of its transfer list, in the order of the list and as many as   *)
(* the list has; a postMessage whose value serializes and whose transfer   *)
(* list is omitted hands its message over with no ports and detaches no    *)
(* port.                                                                   *)
C16_PortsAsNominated ==
    [][/\ (IsPost /\ Len(remote') = Len(remote) + 1) =>
            /\ remote'[Len(remote')].ports =
                 (IF last'.transfer.given THEN last'.transfer.items ELSE <<>>)
            /\ Len(remote'[Len(remote')].ports) = Len(last'.transfer.items)
            /\ neutered' = neutered \cup Range(last'.transfer.items)
       /\ (IsPost /\ last'.ok /\ ~last'.transfer.given) =>
            /\ Len(remote') = Len(remote) + 1
            /\ remote'[Len(remote')].kind = "ReceivePostMessage"
            /\ remote'[Len(remote')].ports = <<>>
            /\ ~last'.threw
            /\ neutered' = neutered]_vars

\* postMessage("ping", [2,3], [p2, p1]): the message carries p2, then p1.
C16_Witness ==
    /\ last.op = "postMessage"
    /\ last.transfer = TransferOf(<<"p2", "p1">>)
    /\ ~last.threw
    /\ Len(remote) >= 1
    /\ remote[Len(remote)].call = last.call
    /\ remote[Len(remote)].ports = <<"p2", "p1">>
    /\ neutered = {"p1", "p2"}

(* C17: a postMessage whose value fails to serialize stops at the          *)
(* serialization: it converts no transfer list, disentangles no port,      *)
(* sends nothing, and every port it nominated that was attached before the *)
(* call is attached after it and is extracted and sent by a postMessage    *)
(* made next with a value that serializes.                                 *)
C17_FailedSerializeKeepsPorts ==
    [][(IsPost /\ ~last'.ok) =>
         /\ neutered' = neutered
         /\ remote' = remote
         /\ last'.threw
         /\ last'.trace = <<"serialize">>
         /\ \A p \in Nominated(last'.transfer) \ neutered :
              /\ Disentangle(neutered', p).has_value
              /\ PostMessageOutcome(neutered', Arr23, TransferOf(<<p>>)).sent
              /\ PostMessageOutcome(neutered', Arr23, TransferOf(<<p>>)).ports
                   = <<p>>]_vars

\* postMessage("ping", [2, function], [p2, p1]) with both ports attached.
C17_Witness ==
    /\ last.op = "postMessage"
    /\ ~last.ok
    /\ last.value = ArrFn
    /\ last.transfer = TransferOf(<<"p2", "p1">>)
    /\ neutered = {}
    /\ remote = <<>>

\* The operations that neither register a call nor transfer a port.
PlainOps == {"send", "sendTo", "sendToHost", "sendSync"}

(* C18: frame conditions.  An entry is added to the pending-call table     *)
(* only by a successful invoke and removed only by a reply delivery; a     *)
(* port is detached only by a postMessage, and none is ever re-attached;   *)
(* a call of send, sendTo, sendToHost or sendSync, successful or not, and  *)
(* the later steps of a sendSync (the reply arriving, the call returning)  *)
(* leave the table, the promises and the state of every port as they were. *)
C18_FrameConditions ==
    [][/\ (pending' \ pending # {}) => IsInvoke
       /\ (pending \ pending' # {}) => IsDelivery
       /\ (neutered' # neutered) => (IsPost /\ neutered \subseteq neutered')
       /\ (IsCall /\ last'.op \in PlainOps) =>
            /\ pending' = pending
            /\ promises' = promises
            /\ neutered' = neutered
       /\ (pc = "blocked" /\ ~IsDelivery) =>
            /\ pending' = pending
            /\ promises' = promises
            /\ neutered' = neutered]_vars

\* An invoke still waiting for its reply, after which a sendSync was made,
\* answered and returned: the invoke's entry is as it was.
C18_Witness ==
    /\ last.op = "sendSync"
    /\ last.ok
    /\ last.status = "returned"
    /\ Cardinality(pending) = 1
    /\ Len(promises) = 1
    /\ promises[1].state = "pending"
    /\ neutered = {}

====
